---- MODULE Spec2Model ----
(***************************************************************************)
(* Model of the temporal memory subsystem of rust-transformer:             *)
(* src/temporal/memory_bank.rs (MemoryBank, MemoryEntry, MemoryConfig).    *)
(*                                                                         *)
(* Numbers.  The code computes in f64.  The model computes in fixed point: *)
(* an importance score x is held as the integer x * Scale, a cosine        *)
(* similarity s as s * SimScale.  Decay factors and compression ratios are *)
(* dyadic rationals <<num, den>>, which f64 holds exactly; the natural     *)
(* logarithm is a table in thousandths.  Representations are 1 x n row     *)
(* vectors with integer entries and integer Euclidean norm, so that every  *)
(* similarity the code computes is the correctly rounded value of a        *)
(* rational the model holds exactly (equal in the model iff equal in f64). *)
(***************************************************************************)
EXTENDS Integers, Sequences, FiniteSets, TLC

VARIABLES
    memories,             \* MemoryBank.memories: VecDeque<MemoryEntry>, front = index 1
    config,               \* MemoryBank.config: MemoryConfig
    current_timestamp,    \* MemoryBank.current_timestamp
    compressed_memories,  \* MemoryBank.compressed_memories: the archive
    op,                   \* history: the last operation called
    arg,                  \* history: its arguments
    ret,                  \* history: what it returned
    pre,                  \* history: the bank's fields when it was called
    evicted,              \* history: the entries the last store evicted
    issued,               \* history: the timestamps store has assigned, in call order
    epoch,                \* history: Len(issued) at the last clear
    clears                \* history: the number of clear calls

vars == <<memories, config, current_timestamp, compressed_memories,
          op, arg, ret, pre, evicted, issued, epoch, clears>>

----------------------------------------------------------------------------
(* Bounds of the model *)

MaxMemorySize == 3     \* largest max_memory_size a bank is built with
MaxStores == 3         \* store calls in one behaviour
MaxAccess == 2         \* retrieve is called only while every live access_count is below this
MaxK == 2              \* largest k passed to retrieve
MaxDistance == 2       \* largest max_distance passed to get_temporal_context
MaxClears == 1         \* clear calls in one behaviour

(* Fixed-point scales *)
Scale == 10240000      \* importance 1.0
SimScale == 1000       \* similarity 1.0
LnScale == 1000        \* the logarithm table is in thousandths

(* Inputs *)
Reps == {<<1, 0>>, <<0, 1>>, <<1>>}          \* representations stored
Queries == {<<3, 4>>, <<0, 0>>, <<1>>}       \* queries passed to retrieve
ContextQueries == {<<1, 0>>, <<1>>}          \* queries passed to get_temporal_context
DecayFactors == {<<1, 2>>, <<1, 1>>}
CompressionRatios == {<<1, 2>>, <<3, 4>>}
RetentionThresholds == {Scale \div 10}

Configs ==
    [max_memory_size : 0..MaxMemorySize,
     memory_decay_factor : DecayFactors,
     retention_threshold : RetentionThresholds,
     compression_ratio : CompressionRatios]

----------------------------------------------------------------------------
(* Arithmetic helpers *)

RECURSIVE Pow(_, _)
Pow(b, e) == IF e = 0 THEN 1 ELSE b * Pow(b, e - 1)

Min(a, b) == IF a <= b THEN a ELSE b

RECURSIVE SumTo(_, _)
SumTo(f, n) == IF n = 0 THEN 0 ELSE f[n] + SumTo(f, n - 1)

\* DMatrix::shape of a 1 x n row vector
Shape(v) == <<1, Len(v)>>

\* DMatrix::dot
Dot(a, b) == SumTo([i \in 1..Len(a) |-> a[i] * b[i]], Len(a))

\* DMatrix::norm, for vectors whose norm is an integer
Norm(v) == CHOOSE n \in 0..Dot(v, v) : n * n = Dot(v, v)

\* f64::ln in thousandths; ln(0) is minus infinity
LnMilli(n) ==
    CASE n = 1 -> 0
      [] n = 2 -> 693
      [] n = 3 -> 1099
      [] n = 4 -> 1386
      [] n = 5 -> 1609
      [] n = 6 -> 1792
      [] n = 7 -> 1946
      [] n = 8 -> 2079
      [] n = 9 -> 2197
      [] n = 10 -> 2303
      [] n = 11 -> 2398
      [] n = 12 -> 2485

----------------------------------------------------------------------------
(* MemoryEntry *)

\* Fault: a new entry counted as already accessed once (sensitivity of C12)
MemoryEntry_new_touched(representation, timestamp) ==
    [representation |-> representation,
     timestamp |-> timestamp,
     importance_score |-> Scale,
     access_count |-> 1]

MemoryEntry_new(representation, timestamp) ==
    [representation |-> representation,
     timestamp |-> timestamp,
     importance_score |-> Scale,
     access_count |-> 0]

\* (self.access_count as f64).ln().max(0.0) * 0.1
AccessBoost(access_count) ==
    IF access_count = 0 THEN 0
    ELSE (LnMilli(access_count) * (Scale \div LnScale)) \div 10

\* decay_factor.powi(age) applied to a score
TimeDecay(score, decay_factor, age) ==
    (score * Pow(decay_factor[1], age)) \div Pow(decay_factor[2], age)

update_importance(m, decay_factor, now) ==
    [m EXCEPT
        !.importance_score =
            TimeDecay(m.importance_score, decay_factor, now - m.timestamp)
            + AccessBoost(m.access_count),
        !.access_count = m.access_count + 1]

----------------------------------------------------------------------------
(* Sorting: slice::sort_by is stable, so the order of a sort is fixed by   *)
(* the keys and the original positions.                                     *)

\* the position (1-based) that element i of keys has after a stable ascending sort
AscRank(keys, i) ==
    1 + Cardinality({j \in 1..Len(keys) :
                        \/ keys[j] < keys[i]
                        \/ keys[j] = keys[i] /\ j < i})

\* the position that element i of keys has after a stable descending sort
DescRank(keys, i) ==
    1 + Cardinality({j \in 1..Len(keys) :
                        \/ keys[j] > keys[i]
                        \/ keys[j] = keys[i] /\ j < i})

\* the original indices in stable ascending order of keys
SortAscending(keys) ==
    [p \in 1..Len(keys) |-> CHOOSE i \in 1..Len(keys) : AscRank(keys, i) = p]

\* the original indices in stable descending order of keys
SortDescending(keys) ==
    [p \in 1..Len(keys) |-> CHOOSE i \in 1..Len(keys) : DescRank(keys, i) = p]

\* Iterator::take
Take(s, n) == SubSeq(s, 1, Min(n, Len(s)))

\* s without the positions in drop, order kept
RECURSIVE RemoveIndices(_, _)
RemoveIndices(s, drop) ==
    IF s = <<>> THEN <<>>
    ELSE LET front == RemoveIndices(SubSeq(s, 1, Len(s) - 1), drop)
         IN IF Len(s) \in drop THEN front ELSE Append(front, s[Len(s)])

SeqRange(s) == {s[i] : i \in 1..Len(s)}

----------------------------------------------------------------------------
(* MemoryBank: the pure parts of its methods *)

\* Fault: the counter advances by two (sensitivity of C3)
NextTimestamp_double(now) == now + 2

\* Fault: the counter stops advancing once it is set (sensitivity of C4)
NextTimestamp_stuck(now) == IF now = 0 THEN 1 ELSE now

\* store, line 67: self.current_timestamp += 1
NextTimestamp(now) == now + 1

\* Fault: the refresh leaves out the newest entry (sensitivity of C25)
update_all_importance_scores_but_newest(mem, decay_factor, now) ==
    [i \in 1..Len(mem) |->
        IF i = Len(mem) THEN mem[i] ELSE update_importance(mem[i], decay_factor, now)]

\* update_all_importance_scores
update_all_importance_scores(mem, decay_factor, now) ==
    [i \in 1..Len(mem) |-> update_importance(mem[i], decay_factor, now)]

\* evict_memories, line 143
NumToRemove(len, max_memory_size) == len - max_memory_size + 1

\* Fault: the comparator of line 141 reversed (sensitivity of C5)
EvictionOrder_reversed(mem) ==
    SortDescending([i \in 1..Len(mem) |-> mem[i].importance_score])

\* evict_memories, lines 135-141: the indices of mem, lowest importance first
EvictionOrder(mem) ==
    SortAscending([i \in 1..Len(mem) |-> mem[i].importance_score])

\* evict_memories, lines 143-148: the indices it removes
IndicesToRemove(mem, max_memory_size) ==
    SeqRange(Take(EvictionOrder(mem), NumToRemove(Len(mem), max_memory_size)))

\* evict_memories: the queue it leaves
evict_memories(mem, cfg, now) ==
    LET refreshed == update_all_importance_scores(mem, cfg.memory_decay_factor, now)
    IN RemoveIndices(refreshed, IndicesToRemove(refreshed, cfg.max_memory_size))

\* Fault: the capacity test off by one (sensitivity of C1)
NeedsEviction_late(len, max_memory_size) == len > max_memory_size + 1

\* store, lines 72-74
NeedsEviction(len, max_memory_size) == len > max_memory_size

\* cosine_similarity, lines 181-189, scaled by SimScale (shapes equal)
cosine_similarity(a, b) ==
    IF Norm(a) = 0 \/ Norm(b) = 0 THEN 0
    ELSE (Dot(a, b) * SimScale) \div (Norm(a) * Norm(b))

\* compute_similarities fails iff some live entry's shape differs from the query's
ShapeMismatch(mem, query) ==
    \E i \in 1..Len(mem) : Shape(mem[i].representation) # Shape(query)

compute_similarities(mem, query) ==
    [i \in 1..Len(mem) |-> cosine_similarity(query, mem[i].representation)]

\* Fault: the comparator of line 86 reversed (sensitivity of C7)
RetrieveOrder_ascending(mem, query, k) ==
    Take(SortAscending(compute_similarities(mem, query)), k)

\* retrieve, lines 81-89: the indices it selects, in the order it visits them
RetrieveOrder(mem, query, k) ==
    Take(SortDescending(compute_similarities(mem, query)), k)

\* Fault: every live entry is touched, not only the selected ones (sensitivity of C6)
RetrieveTouch_all(mem, selected, decay_factor, now) ==
    [i \in 1..Len(mem) |-> update_importance(mem[i], decay_factor, now)]

\* retrieve, lines 89-94: the queue after the selected entries were touched
RetrieveTouch(mem, selected, decay_factor, now) ==
    [i \in 1..Len(mem) |->
        IF i \in SeqRange(selected)
        THEN update_importance(mem[i], decay_factor, now)
        ELSE mem[i]]

\* Fault: the distance test strict (sensitivity of C8)
InContext_strict(m, now, max_distance, retention_threshold) ==
    /\ now - m.timestamp < max_distance
    /\ m.importance_score > retention_threshold

\* get_temporal_context, line 105
InContext(m, now, max_distance, retention_threshold) ==
    /\ now - m.timestamp <= max_distance
    /\ m.importance_score > retention_threshold

\* get_temporal_context, lines 100-110: iterates the queue back to front
RECURSIVE get_temporal_context(_, _, _, _, _)
get_temporal_context(mem, now, retention_threshold, query, max_distance) ==
    IF mem = <<>> THEN <<>>
    ELSE LET m == mem[Len(mem)]
             rest == get_temporal_context(SubSeq(mem, 1, Len(mem) - 1), now,
                                          retention_threshold, query, max_distance)
         IN IF InContext(m, now, max_distance, retention_threshold)
            THEN <<m.representation>> \o rest
            ELSE rest

\* Fault: the threshold rounded up instead of truncated (sensitivity of C10)
CompressionThreshold_ceil(cfg) ==
    (cfg.max_memory_size * cfg.compression_ratio[1] + cfg.compression_ratio[2] - 1)
        \div cfg.compression_ratio[2]

\* compress_old_memories, line 114: (max_memory_size as f64 * compression_ratio) as usize
CompressionThreshold(cfg) ==
    (cfg.max_memory_size * cfg.compression_ratio[1]) \div cfg.compression_ratio[2]

\* compress_memories panics in `sum += ...` when a shape differs from the first's
MixedShapes(old) ==
    \E i \in 1..Len(old) : Shape(old[i].representation) # Shape(old[1].representation)

\* compress_memories, lines 197-211: the importance-weighted sum and the total
\* importance it is divided by (the quotient is kept as the pair)
compress_memories(old) ==
    LET n == Len(old[1].representation)
        total == SumTo([i \in 1..Len(old) |-> old[i].importance_score], Len(old))
    IN [sum |-> [j \in 1..n |->
                    SumTo([i \in 1..Len(old) |->
                              old[i].representation[j] * old[i].importance_score],
                          Len(old))],
        total_importance |-> total]

----------------------------------------------------------------------------
(* MemoryBank: its methods as functions of the bank's fields *)

NoEviction == [queue |-> <<>>, removed |-> {}]

\* Fault: the new entry is pushed at the front of the queue (sensitivity of C24)
store_push_front(mem, cfg, now, representation) ==
    LET t == NextTimestamp(now)
        pushed == <<MemoryEntry_new(representation, t)>> \o mem
    IN IF NeedsEviction(Len(pushed), cfg.max_memory_size)
       THEN LET refreshed ==
                    update_all_importance_scores(pushed, cfg.memory_decay_factor, t)
            IN [memories |-> evict_memories(pushed, cfg, t),
                current_timestamp |-> t,
                evicted |-> [queue |-> refreshed,
                             removed |-> IndicesToRemove(refreshed, cfg.max_memory_size)]]
       ELSE [memories |-> pushed, current_timestamp |-> t, evicted |-> NoEviction]

\* store, lines 66-77: the queue, the timestamp, and what eviction did
store(mem, cfg, now, representation) ==
    LET t == NextTimestamp(now)
        pushed == Append(mem, MemoryEntry_new(representation, t))
    IN IF NeedsEviction(Len(pushed), cfg.max_memory_size)
       THEN LET refreshed ==
                    update_all_importance_scores(pushed, cfg.memory_decay_factor, t)
            IN [memories |-> evict_memories(pushed, cfg, t),
                current_timestamp |-> t,
                evicted |-> [queue |-> refreshed,
                             removed |-> IndicesToRemove(refreshed, cfg.max_memory_size)]]
       ELSE [memories |-> pushed, current_timestamp |-> t, evicted |-> NoEviction]

\* Fault: on a shape mismatch the entries that do match the query are touched
\* before the error is returned (sensitivity of C26)
retrieve_touching_on_error(mem, cfg, now, query, k) ==
    IF ShapeMismatch(mem, query)
    THEN [memories |-> [i \in 1..Len(mem) |->
                           IF Shape(mem[i].representation) = Shape(query)
                           THEN update_importance(mem[i], cfg.memory_decay_factor, now)
                           ELSE mem[i]],
          ret |-> [status |-> "err", values |-> <<>>, indices |-> <<>>]]
    ELSE LET selected == RetrieveOrder(mem, query, k)
         IN [memories |-> RetrieveTouch(mem, selected, cfg.memory_decay_factor, now),
             ret |-> [status |-> "ok",
                      values |-> [p \in 1..Len(selected) |->
                                     mem[selected[p]].representation],
                      indices |-> selected]]

\* retrieve, lines 79-97
retrieve(mem, cfg, now, query, k) ==
    IF ShapeMismatch(mem, query)
    THEN [memories |-> mem,
          ret |-> [status |-> "err", values |-> <<>>, indices |-> <<>>]]
    ELSE LET selected == RetrieveOrder(mem, query, k)
         IN [memories |-> RetrieveTouch(mem, selected, cfg.memory_decay_factor, now),
             ret |-> [status |-> "ok",
                      values |-> [p \in 1..Len(selected) |->
                                     mem[selected[p]].representation],
                      indices |-> selected]]

\* compress_old_memories, lines 113-130
compress_old_memories(mem, cfg, archive) ==
    LET threshold == CompressionThreshold(cfg)
        old == SubSeq(mem, 1, threshold)
        kept == SubSeq(mem, threshold + 1, Len(mem))
    IN IF Len(mem) <= threshold
       THEN [memories |-> mem, compressed_memories |-> archive, status |-> "ok"]
       ELSE IF old = <<>>
       THEN [memories |-> kept, compressed_memories |-> archive, status |-> "ok"]
       ELSE IF MixedShapes(old)
       THEN [memories |-> kept, compressed_memories |-> archive, status |-> "panic"]
       ELSE [memories |-> kept,
             compressed_memories |-> Append(archive, compress_memories(old)),
             status |-> "ok"]

\* size
size == Len(memories)

----------------------------------------------------------------------------
(* The state machine: one MemoryBank and the calls made on it *)

NoArg == [representation |-> <<>>, k |-> 0, max_distance |-> 0]
Unit == [status |-> "ok", values |-> <<>>, indices |-> <<>>]
Snapshot ==
    [memories |-> memories,
     current_timestamp |-> current_timestamp,
     compressed_memories |-> compressed_memories]

\* a panic unwinds out of the caller: no further call is made on the bank
Running == ret.status # "panic"

Init ==
    /\ config \in Configs
    /\ memories = <<>>
    /\ current_timestamp = 0
    /\ compressed_memories = <<>>
    /\ op = "new"
    /\ arg = NoArg
    /\ ret = Unit
    /\ pre = [memories |-> <<>>, current_timestamp |-> 0, compressed_memories |-> <<>>]
    /\ evicted = NoEviction
    /\ issued = <<>>
    /\ epoch = 0
    /\ clears = 0

Store(representation) ==
    /\ Running
    /\ Len(issued) < MaxStores
    /\ LET r == store(memories, config, current_timestamp, representation)
       IN /\ memories' = r.memories
          /\ current_timestamp' = r.current_timestamp
          /\ evicted' = r.evicted
          /\ issued' = Append(issued, r.current_timestamp)
    /\ op' = "store"
    /\ arg' = [NoArg EXCEPT !.representation = representation]
    /\ ret' = Unit
    /\ pre' = Snapshot
    /\ UNCHANGED <<config, compressed_memories, epoch, clears>>

Retrieve(query, k) ==
    /\ Running
    /\ \A i \in 1..Len(memories) : memories[i].access_count < MaxAccess
    /\ LET r == retrieve(memories, config, current_timestamp, query, k)
       IN /\ memories' = r.memories
          /\ ret' = r.ret
    /\ op' = "retrieve"
    /\ arg' = [NoArg EXCEPT !.representation = query, !.k = k]
    /\ pre' = Snapshot
    /\ evicted' = NoEviction
    /\ UNCHANGED <<config, current_timestamp, compressed_memories, issued, epoch, clears>>

\* Fault: reading the context refreshes the importance of the live entries, as
\* retrieve does (sensitivity of C9)
GetTemporalContext_touching(query, max_distance) ==
    /\ Running
    /\ \A i \in 1..Len(memories) : memories[i].access_count < MaxAccess
    /\ memories' = update_all_importance_scores(memories, config.memory_decay_factor,
                                                 current_timestamp)
    /\ ret' = [status |-> "ok",
               values |-> get_temporal_context(memories, current_timestamp,
                                               config.retention_threshold,
                                               query, max_distance),
               indices |-> <<>>]
    /\ op' = "get_temporal_context"
    /\ arg' = [NoArg EXCEPT !.representation = query, !.max_distance = max_distance]
    /\ pre' = Snapshot
    /\ evicted' = NoEviction
    /\ UNCHANGED <<config, current_timestamp, compressed_memories,
                   issued, epoch, clears>>

\* get_temporal_context takes &self: it returns the context and assigns nothing
GetTemporalContext(query, max_distance) ==
    /\ Running
    /\ ret' = [status |-> "ok",
               values |-> get_temporal_context(memories, current_timestamp,
                                               config.retention_threshold,
                                               query, max_distance),
               indices |-> <<>>]
    /\ op' = "get_temporal_context"
    /\ arg' = [NoArg EXCEPT !.representation = query, !.max_distance = max_distance]
    /\ pre' = Snapshot
    /\ evicted' = NoEviction
    /\ UNCHANGED <<memories, config, current_timestamp, compressed_memories,
                   issued, epoch, clears>>

CompressOldMemories ==
    /\ Running
    /\ LET r == compress_old_memories(memories, config, compressed_memories)
       IN /\ memories' = r.memories
          /\ compressed_memories' = r.compressed_memories
          /\ ret' = [Unit EXCEPT !.status = r.status]
    /\ op' = "compress_old_memories"
    /\ arg' = NoArg
    /\ pre' = Snapshot
    /\ evicted' = NoEviction
    /\ UNCHANGED <<config, current_timestamp, issued, epoch, clears>>

\* Fault: clear empties the bank but keeps the counter (sensitivity of C11)
Clear_keeps_timestamp ==
    /\ Running
    /\ clears < MaxClears
    /\ memories' = <<>>
    /\ compressed_memories' = <<>>
    /\ op' = "clear"
    /\ arg' = NoArg
    /\ ret' = Unit
    /\ pre' = Snapshot
    /\ evicted' = NoEviction
    /\ epoch' = Len(issued)
    /\ clears' = clears + 1
    /\ UNCHANGED <<config, issued, current_timestamp>>

\* clear, lines 214-218
Clear ==
    /\ Running
    /\ clears < MaxClears
    /\ memories' = <<>>
    /\ compressed_memories' = <<>>
    /\ current_timestamp' = 0
    /\ op' = "clear"
    /\ arg' = NoArg
    /\ ret' = Unit
    /\ pre' = Snapshot
    /\ evicted' = NoEviction
    /\ epoch' = Len(issued)
    /\ clears' = clears + 1
    /\ UNCHANGED <<config, issued>>

Next ==
    \/ \E representation \in Reps : Store(representation)
    \/ \E query \in Queries, k \in 0..MaxK : Retrieve(query, k)
    \/ \E query \in ContextQueries, max_distance \in 0..MaxDistance :
          GetTemporalContext(query, max_distance)
    \/ CompressOldMemories
    \/ Clear

Spec == Init /\ [][Next]_vars

----------------------------------------------------------------------------
(* Properties of MemoryBank, C1 - C10 *)

Distinct(s) == \A i, j \in 1..Len(s) : i # j => s[i] # s[j]

\* C1: after each store call returns, size() <= max_memory_size, for every
\* max_memory_size and whatever other operations came before.
C1_CapacityAfterStore ==
    op = "store" => size <= config.max_memory_size

\* a store that evicted from a bank of capacity at least 2
C1_Witness ==
    /\ op = "store"
    /\ evicted.removed # {}
    /\ size <= config.max_memory_size
    /\ config.max_memory_size >= 2

\* C2: a store that pushes the live size above max_memory_size returns with the
\* live size exactly max_memory_size.
C2_StoreLeavesBankFull ==
    (op = "store" /\ Len(pre.memories) + 1 > config.max_memory_size)
        => size = config.max_memory_size

\* C3: every store adds exactly 1 to current_timestamp, evicting or not; retrieve,
\* get_temporal_context and compress_old_memories leave it alone; so on a bank
\* never cleared current_timestamp is the number of store calls so far.
C3_TimestampCountsStores ==
    /\ op = "store" => current_timestamp = pre.current_timestamp + 1
    /\ op \in {"retrieve", "get_temporal_context", "compress_old_memories"}
          => current_timestamp = pre.current_timestamp
    /\ clears = 0 => current_timestamp = Len(issued)

\* the third store of a never-cleared bank, which evicted, after a retrieve
C3_Witness ==
    /\ op = "store"
    /\ evicted.removed # {}
    /\ clears = 0
    /\ current_timestamp = 3
    /\ \E i \in 1..Len(evicted.queue) : evicted.queue[i].access_count >= 2

\* C4 as claimed: over any operations, clear included, current_timestamp never
\* decreases and no two store calls assign the same timestamp.
C4_NeverDecreasesNorRepeats ==
    /\ current_timestamp >= pre.current_timestamp
    /\ Distinct(issued)

\* C4 as amended: current_timestamp never decreases except that clear resets it
\* to 0, and no two store calls since the last clear (or since construction)
\* assign the same timestamp.
C4_MonotoneBetweenClears ==
    /\ op # "clear" => current_timestamp >= pre.current_timestamp
    /\ op = "clear" => current_timestamp = 0
    /\ Distinct(SubSeq(issued, epoch + 1, Len(issued)))

\* stores before a clear and two stores after it
C4_Witness ==
    /\ op = "store"
    /\ clears = 1
    /\ epoch >= 1
    /\ Len(issued) - epoch >= 2

\* C5: eviction removes the entries of lowest importance as refreshed at the
\* current timestamp: no removed entry has a higher refreshed importance than a
\* survivor, and where they are equal the removed one has the lower queue index.
C5_EvictsLowestOldestFirst ==
    (op = "store" /\ evicted.removed # {}) =>
        LET q == evicted.queue
            survivors == (1..Len(q)) \ evicted.removed
        IN /\ Len(q) = Len(pre.memories) + 1
           /\ \A i \in 1..Len(pre.memories) :
                 /\ q[i].timestamp = pre.memories[i].timestamp
                 /\ q[i].importance_score =
                        TimeDecay(pre.memories[i].importance_score,
                                  config.memory_decay_factor,
                                  current_timestamp - pre.memories[i].timestamp)
                        + AccessBoost(pre.memories[i].access_count)
           /\ \A e \in evicted.removed, s \in survivors :
                 \/ q[e].importance_score < q[s].importance_score
                 \/ q[e].importance_score = q[s].importance_score /\ e < s
           /\ Len(memories) = Cardinality(survivors)
           /\ \A s \in survivors : \E i \in 1..Len(memories) : memories[i] = q[s]

\* an eviction that split a tie by index, and one that removed a strictly lower score
C5_Witness ==
    /\ op = "store"
    /\ evicted.removed # {}
    /\ \E e \in evicted.removed, s \in (1..Len(evicted.queue)) \ evicted.removed :
          /\ evicted.queue[e].importance_score = evicted.queue[s].importance_score
          /\ e < s
    /\ \E e \in evicted.removed, s \in (1..Len(evicted.queue)) \ evicted.removed :
          /\ evicted.queue[e].importance_score < evicted.queue[s].importance_score
          /\ e > s

\* similarity of the last call's query to live entry i of the queue it was called on
PreSim(i) == cosine_similarity(arg.representation, pre.memories[i].representation)

\* C6: a successful retrieve adds exactly 1 to the access_count of each entry it
\* returns, leaves every other entry as it was and in place, adds and removes
\* nothing, and leaves current_timestamp and the archive alone.
C6_RetrieveTouchesOnlyReturned ==
    (op = "retrieve" /\ ret.status = "ok") =>
        /\ Len(memories) = Len(pre.memories)
        /\ current_timestamp = pre.current_timestamp
        /\ compressed_memories = pre.compressed_memories
        /\ Len(ret.values) = Len(ret.indices)
        /\ \A p \in 1..Len(ret.indices) :
              /\ ret.indices[p] \in 1..Len(pre.memories)
              /\ ret.values[p] = pre.memories[ret.indices[p]].representation
        /\ \A i \in 1..Len(pre.memories) :
              IF i \in SeqRange(ret.indices)
              THEN /\ memories[i].access_count = pre.memories[i].access_count + 1
                   /\ memories[i].timestamp = pre.memories[i].timestamp
                   /\ memories[i].representation = pre.memories[i].representation
              ELSE memories[i] = pre.memories[i]

\* a retrieve that returned some entries of the bank and not others
C6_Witness ==
    /\ op = "retrieve"
    /\ ret.status = "ok"
    /\ Len(ret.indices) >= 1
    /\ Len(ret.indices) < Len(memories)
    /\ \E i \in 1..Len(memories) :
          i \notin SeqRange(ret.indices) /\ memories[i].access_count >= 1

\* C7: a successful retrieve(q, k) returns exactly min(k, size()) representations,
\* in descending similarity to q, equal similarities in insertion order, and no
\* entry left out is strictly more similar than one returned.
C7_RetrieveTopK ==
    (op = "retrieve" /\ ret.status = "ok") =>
        /\ Len(ret.values) = Min(arg.k, Len(pre.memories))
        /\ Distinct(ret.indices)
        /\ \A p \in 1..Len(ret.indices) :
              /\ ret.indices[p] \in 1..Len(pre.memories)
              /\ ret.values[p] = pre.memories[ret.indices[p]].representation
        /\ \A p, q \in 1..Len(ret.indices) :
              p < q =>
                 \/ PreSim(ret.indices[p]) > PreSim(ret.indices[q])
                 \/ /\ PreSim(ret.indices[p]) = PreSim(ret.indices[q])
                    /\ ret.indices[p] < ret.indices[q]
        /\ \A i \in (1..Len(pre.memories)) \ SeqRange(ret.indices) :
              \A p \in 1..Len(ret.indices) : PreSim(i) <= PreSim(ret.indices[p])

\* a retrieve with k below size() that returned two equally similar entries, put
\* a more similar entry before a less similar one stored earlier, and left one out
C7_Witness ==
    /\ op = "retrieve"
    /\ ret.status = "ok"
    /\ arg.k = 2
    /\ Len(ret.indices) = 2
    /\ Len(pre.memories) = 3
    /\ \E i \in (1..Len(pre.memories)) \ SeqRange(ret.indices) :
          PreSim(i) < PreSim(ret.indices[1])
    /\ \E p, q \in 1..Len(ret.indices) :
          p < q /\ PreSim(ret.indices[p]) = PreSim(ret.indices[q])

\* a retrieve that returned a later-stored, more similar entry first
C7_WitnessReorder ==
    /\ op = "retrieve"
    /\ ret.status = "ok"
    /\ \E p, q \in 1..Len(ret.indices) :
          p < q /\ ret.indices[p] > ret.indices[q]

\* the live entries of the last call's queue that are within max_distance and
\* above the retention threshold
Qualifying ==
    {i \in 1..Len(pre.memories) :
        /\ pre.current_timestamp - pre.memories[i].timestamp <= arg.max_distance
        /\ pre.memories[i].importance_score > config.retention_threshold}

\* C8: get_temporal_context returns exactly the live entries with
\* current_timestamp - timestamp <= max_distance and importance_score >
\* retention_threshold, most recent first, whatever the query is.
C8_TemporalContextExact ==
    op = "get_temporal_context" =>
        /\ ret.status = "ok"
        /\ Len(ret.values) = Cardinality(Qualifying)
        /\ \A i \in Qualifying :
              ret.values[1 + Cardinality({j \in Qualifying : j > i})]
                 = pre.memories[i].representation
        /\ \A q \in Reps \cup Queries \cup ContextQueries :
              get_temporal_context(pre.memories, pre.current_timestamp,
                                   config.retention_threshold, q, arg.max_distance)
                 = ret.values

\* a context of two entries, most recent first, that left out an entry recent
\* enough but not important enough
C8_Witness ==
    /\ op = "get_temporal_context"
    /\ Len(ret.values) = 2
    /\ ret.values[1] # ret.values[2]
    /\ \E i \in 1..Len(pre.memories) :
          /\ pre.current_timestamp - pre.memories[i].timestamp <= arg.max_distance
          /\ pre.memories[i].importance_score <= config.retention_threshold

\* a non-empty context that left out an entry important enough but too old
C8_WitnessAge ==
    /\ op = "get_temporal_context"
    /\ Len(ret.values) >= 1
    /\ \E i \in 1..Len(pre.memories) :
          /\ pre.current_timestamp - pre.memories[i].timestamp > arg.max_distance
          /\ pre.memories[i].importance_score > config.retention_threshold

\* C9: get_temporal_context changes nothing: not the live queue, not
\* current_timestamp, not the archive.
C9_TemporalContextPure ==
    op = "get_temporal_context" =>
        /\ memories = pre.memories
        /\ current_timestamp = pre.current_timestamp
        /\ compressed_memories = pre.compressed_memories

\* a non-empty context read from a bank that has an archive
C9_Witness ==
    /\ op = "get_temporal_context"
    /\ ret.values # <<>>
    /\ compressed_memories # <<>>
    /\ memories = pre.memories

\* T = floor(compression_ratio * max_memory_size)
T == (config.max_memory_size * config.compression_ratio[1])
        \div config.compression_ratio[2]

BankUnchanged ==
    /\ memories = pre.memories
    /\ current_timestamp = pre.current_timestamp
    /\ compressed_memories = pre.compressed_memories

\* the T oldest entries are gone, the rest are as they were, the archive grew by one
OldestCompressed ==
    /\ memories = SubSeq(pre.memories, T + 1, Len(pre.memories))
    /\ Len(compressed_memories) = Len(pre.compressed_memories) + 1
    /\ SubSeq(compressed_memories, 1, Len(pre.compressed_memories))
          = pre.compressed_memories
    /\ current_timestamp = pre.current_timestamp

\* C10 as claimed: if size() > T, compress_old_memories removes exactly the T
\* oldest entries, keeps the rest, and appends exactly one vector to the
\* archive; if size() <= T it changes nothing.
C10_CompressAsClaimed ==
    op = "compress_old_memories" =>
        IF Len(pre.memories) > T THEN OldestCompressed ELSE BankUnchanged

\* C10 as amended: the same when T >= 1 and the T oldest representations have one
\* shape; when T = 0 or size() <= T it changes nothing.
C10_CompressOldest ==
    op = "compress_old_memories" =>
        /\ (Len(pre.memories) <= T \/ T = 0) => (BankUnchanged /\ ret.status = "ok")
        /\ (Len(pre.memories) > T /\ T >= 1
              /\ ~MixedShapes(SubSeq(pre.memories, 1, T)))
              => (OldestCompressed /\ ret.status = "ok")

\* a compression that removed two entries, kept one and archived one vector
C10_Witness ==
    /\ op = "compress_old_memories"
    /\ T = 2
    /\ Len(pre.memories) = 3
    /\ Len(memories) = 1
    /\ Len(compressed_memories) = Len(pre.compressed_memories) + 1

\* a compression call on a bank with T = 0, which changed nothing
C10_WitnessZero ==
    /\ op = "compress_old_memories"
    /\ T = 0
    /\ Len(pre.memories) > 0
    /\ BankUnchanged

----------------------------------------------------------------------------
(* Properties of MemoryBank, C11 - C12 *)

\* C11: after clear the live queue and the archive are empty and
\* current_timestamp is 0, so size() is 0, and the next store sets
\* current_timestamp to 1 and gives its entry timestamp 1.
C11_ClearResets ==
    /\ op = "clear" =>
          /\ memories = <<>>
          /\ compressed_memories = <<>>
          /\ current_timestamp = 0
          /\ size = 0
    /\ (op = "store" /\ clears >= 1 /\ Len(issued) = epoch + 1) =>
          /\ current_timestamp = 1
          /\ issued[Len(issued)] = 1
          /\ IF evicted.removed = {}
             THEN memories[Len(memories)].timestamp = 1
             ELSE evicted.queue[Len(evicted.queue)].timestamp = 1

\* the first store after a clear that emptied a bank holding two stores
C11_Witness ==
    /\ op = "store"
    /\ clears = 1
    /\ epoch = 2
    /\ Len(issued) = 3
    /\ size = 1
    /\ memories[1].timestamp = 1

LiveTimestamps(mem) == {mem[i].timestamp : i \in 1..Len(mem)}

\* every entry of the queue that the last call did not find there was made by
\* store, with the new timestamp, importance 1.0 and access_count 0 (refreshed
\* once if that store evicted)
CreatedOnlyByStore ==
    \A i \in 1..Len(memories) :
        memories[i].timestamp \notin LiveTimestamps(pre.memories) =>
            /\ op = "store"
            /\ memories[i].timestamp = current_timestamp
            /\ memories[i].representation = arg.representation
            /\ IF evicted.removed = {}
               THEN memories[i].importance_score = Scale
                    /\ memories[i].access_count = 0
               ELSE memories[i].importance_score = Scale + AccessBoost(0)
                    /\ memories[i].access_count = 1

\* every entry the last call changed was touched by retrieve or refreshed by an eviction
ChangedOnlyByImportanceUpdate ==
    \A i \in 1..Len(memories), j \in 1..Len(pre.memories) :
        (memories[i].timestamp = pre.memories[j].timestamp
            /\ memories[i] # pre.memories[j]) =>
            /\ \/ op = "retrieve" /\ j \in SeqRange(ret.indices)
               \/ op = "store" /\ evicted.removed # {}
            /\ memories[i].representation = pre.memories[j].representation
            /\ memories[i].access_count = pre.memories[j].access_count + 1
            /\ memories[i].importance_score =
                  TimeDecay(pre.memories[j].importance_score,
                            config.memory_decay_factor,
                            current_timestamp - pre.memories[j].timestamp)
                  + AccessBoost(pre.memories[j].access_count)

\* the operations in ops are the only ones after which an entry is gone
RemovedOnlyBy(ops) ==
    \A j \in 1..Len(pre.memories) :
        pre.memories[j].timestamp \notin LiveTimestamps(memories) =>
            \/ op \in ops
            \/ op = "store" /\ evicted.removed # {}

\* C12 as claimed: an entry is created only by store, changes only through the
\* importance update of retrieve or eviction, and leaves the live queue only
\* through eviction or clear.
C12_LifecycleAsClaimed ==
    /\ CreatedOnlyByStore
    /\ ChangedOnlyByImportanceUpdate
    /\ RemovedOnlyBy({"clear"})

\* C12 as amended: the same, and an entry also leaves the live queue through
\* compress_old_memories.
C12_Lifecycle ==
    /\ CreatedOnlyByStore
    /\ ChangedOnlyByImportanceUpdate
    /\ RemovedOnlyBy({"clear", "compress_old_memories"})

\* a compression that took an entry out of the live queue and left a touched one
C12_Witness ==
    /\ op = "compress_old_memories"
    /\ \E j \in 1..Len(pre.memories) :
          pre.memories[j].timestamp \notin LiveTimestamps(memories)
    /\ \E i \in 1..Len(memories) : memories[i].access_count >= 1

----------------------------------------------------------------------------
(* Matrices for attention: a matrix is the sequence of its rows; the empty  *)
(* sequence is a matrix of no rows.  An output of the attention primitive   *)
(* x is held as the integer x * AttScale.                                   *)

AttScale == 1440

NRows(m) == Len(m)
NCols(m) == IF m = <<>> THEN 0 ELSE Len(m[1])
MShape(m) == <<NRows(m), NCols(m)>>

\* DMatrix::zeros
Zeros(nrows, ncols) == [i \in 1..nrows |-> [j \in 1..ncols |-> 0]]

\* m.map(|x| x * num / den)
MScale(m, num, den) ==
    [i \in 1..NRows(m) |-> [j \in 1..NCols(m) |-> (m[i][j] * num) \div den]]

\* a + b, shapes equal
MAdd(a, b) == [i \in 1..NRows(a) |-> [j \in 1..NCols(a) |-> a[i][j] + b[i][j]]]

\* ScaledDotProductAttention::forward line 23: row i of query * key.transpose();
\* the positive factor 1 / sqrt(d_k) does not change which scores are equal
Scores(query, key, i) == [j \in 1..NRows(key) |-> Dot(query[i], key[j])]

\* softmax, lines 54-74, on a row whose scores are all equal: every weight is
\* 1 / n.  The model's inputs are drawn so that every score row is constant.
UniformRow(row) == \A j \in 1..Len(row) : row[j] = row[1]

\* ScaledDotProductAttention::forward with mask None, lines 13-36.
\* query * key.transpose() and attention_weights * value panic on a dimension
\* mismatch; softmax fails on a key of no rows (the sum of no exponentials is 0).
scaled_dot_product_attention(query, key, value) ==
    IF key # <<>> /\ NCols(query) # NCols(key)
    THEN [status |-> "panic", output |-> <<>>]
    ELSE IF key = <<>>
    THEN [status |-> "err", output |-> <<>>]
    ELSE IF NRows(value) # NRows(key)
    THEN [status |-> "panic", output |-> <<>>]
    ELSE [status |-> "ok",
          output |->
             [i \in 1..NRows(query) |->
                CASE UniformRow(Scores(query, key, i)) ->
                   [c \in 1..NCols(value) |->
                      (SumTo([j \in 1..NRows(value) |-> value[j][c]], NRows(value))
                          * AttScale) \div NRows(value)]]]

----------------------------------------------------------------------------
(* TemporalAttention, src/temporal/temporal_attention.rs.  cfg has the      *)
(* fields max_temporal_distance and decay_factor.                           *)

\* Fault: a triple at exactly max_temporal_distance is skipped (sensitivity of C13)
Skipped_inclusive(cfg, distance) == distance >= cfg.max_temporal_distance

\* forward, line 48
Skipped(cfg, distance) == distance > cfg.max_temporal_distance

\* compute_temporal_weight, lines 88-94, applied to a matrix
ApplyTemporalWeight(cfg, m, distance) ==
    IF distance = 0 THEN m
    ELSE MScale(m, Pow(cfg.decay_factor[1], distance), Pow(cfg.decay_factor[2], distance))

RECURSIVE MSum(_, _)
MSum(outputs, n) == IF n = 1 THEN outputs[1] ELSE MAdd(MSum(outputs, n - 1), outputs[n])

\* combine_temporal_outputs, lines 106-118; `combined += output` panics when
\* the shapes differ
combine_temporal_outputs(outputs) ==
    IF outputs = <<>>
    THEN [status |-> "err", output |-> <<>>]
    ELSE IF \E i \in 1..Len(outputs) : MShape(outputs[i]) # MShape(outputs[1])
    THEN [status |-> "panic", output |-> <<>>]
    ELSE [status |-> "ok", output |-> MScale(MSum(outputs, Len(outputs)), 1, Len(outputs))]

\* Fault: the length check compares only keys with values (sensitivity of C14)
LengthMismatch_keys_values(keys, values, distances) == Len(keys) # Len(values)

\* forward, line 37
LengthMismatch(keys, values, distances) ==
    Len(keys) # Len(values) \/ Len(keys) # Len(distances)

\* forward, lines 43-57: the loop from triple i on; acc holds the weighted
\* outputs pushed and the number of calls made to the attention primitive
RECURSIVE ForwardLoop(_, _, _, _, _, _, _)
ForwardLoop(cfg, query, keys, values, distances, i, acc) ==
    IF i > Min(Len(keys), Min(Len(values), Len(distances)))
    THEN [status |-> "ok", outputs |-> acc.outputs, calls |-> acc.calls]
    ELSE IF Skipped(cfg, distances[i])
    THEN ForwardLoop(cfg, query, keys, values, distances, i + 1, acc)
    ELSE LET a == scaled_dot_product_attention(query, keys[i], values[i])
         IN IF a.status # "ok"
            THEN [status |-> a.status, outputs |-> acc.outputs, calls |-> acc.calls + 1]
            ELSE ForwardLoop(cfg, query, keys, values, distances, i + 1,
                             [outputs |-> Append(acc.outputs,
                                                 ApplyTemporalWeight(cfg, a.output,
                                                                     distances[i])),
                              calls |-> acc.calls + 1])

\* TemporalAttention::forward, lines 30-65
temporal_attention_forward(cfg, query, keys, values, distances) ==
    IF LengthMismatch(keys, values, distances)
    THEN [status |-> "err", output |-> <<>>, calls |-> 0]
    ELSE LET l == ForwardLoop(cfg, query, keys, values, distances, 1,
                              [outputs |-> <<>>, calls |-> 0])
         IN IF l.status # "ok"
            THEN [status |-> l.status, output |-> <<>>, calls |-> l.calls]
            ELSE IF l.outputs = <<>>
            THEN [status |-> "ok",
                  output |-> Zeros(NRows(query), NCols(query)),
                  calls |-> l.calls]
            ELSE LET c == combine_temporal_outputs(l.outputs)
                 IN [status |-> c.status, output |-> c.output, calls |-> l.calls]

\* Fault: the cross attention decays its output by the first position
\* (sensitivity of C19)
cross_temporal_attention_decayed(cfg, query, key, value, positions) ==
    LET a == scaled_dot_product_attention(query, key, value)
    IN [status |-> a.status,
        output |-> IF a.status = "ok" /\ positions # <<>>
                   THEN ApplyTemporalWeight(cfg, a.output, positions[1])
                   ELSE a.output,
        calls |-> 1]

\* TemporalAttention::cross_temporal_attention, lines 67-76
cross_temporal_attention(cfg, query, key, value, positions) ==
    LET a == scaled_dot_product_attention(query, key, value)
    IN [status |-> a.status, output |-> a.output, calls |-> 1]

----------------------------------------------------------------------------
(* The state machine of one TemporalAttention and the calls made on it.     *)
(* config holds its fields, arg and ret the last call's arguments and       *)
(* result; ret.calls counts the calls it made to the attention primitive.   *)
(* The memory bank's variables are not used.                                *)

MaxTemporalDistance == 1   \* largest max_temporal_distance an attention is built with
MaxTriples == 2            \* longest key, value or distance list passed to forward

AttQueries == {<< <<1, 0>> >>, << <<1, 0>>, <<0, 1>> >>}
AttKeys == {<< <<2, 0>> >>, <<>>}
AttValues == {<< <<2, 0>> >>, << <<0, 4>> >>}
CrossKeys == {<< <<2, 0>>, <<2, 0>> >>, << <<2, 0>> >>, <<>>}
CrossValues == {<< <<2, 0>>, <<0, 4>> >>, << <<0, 4>> >>}
PositionLists == {<<>>, <<0, 1>>, <<2>>}

AttConfigs ==
    [max_temporal_distance : 0..MaxTemporalDistance, decay_factor : DecayFactors]

\* the sequences over S of length at most n
SeqsUpTo(S, n) == UNION {[1..m -> S] : m \in 0..n}

AttArg(query, keys, values, distances) ==
    [query |-> query, keys |-> keys, values |-> values, distances |-> distances]

AttInit ==
    /\ config \in AttConfigs
    /\ memories = <<>>
    /\ current_timestamp = 0
    /\ compressed_memories = <<>>
    /\ op = "new"
    /\ arg = AttArg(<<>>, <<>>, <<>>, <<>>)
    /\ ret = [status |-> "ok", output |-> <<>>, calls |-> 0]
    /\ pre = [memories |-> <<>>, current_timestamp |-> 0, compressed_memories |-> <<>>]
    /\ evicted = NoEviction
    /\ issued = <<>>
    /\ epoch = 0
    /\ clears = 0

AttentionForward(query, keys, values, distances) ==
    /\ ret.status # "panic"
    /\ op' = "forward"
    /\ arg' = AttArg(query, keys, values, distances)
    /\ ret' = temporal_attention_forward(config, query, keys, values, distances)
    /\ UNCHANGED <<memories, config, current_timestamp, compressed_memories,
                   pre, evicted, issued, epoch, clears>>

CrossTemporalAttention(query, key, value, positions) ==
    /\ ret.status # "panic"
    /\ op' = "cross_temporal_attention"
    /\ arg' = AttArg(query, <<key>>, <<value>>, positions)
    /\ ret' = cross_temporal_attention(config, query, key, value, positions)
    /\ UNCHANGED <<memories, config, current_timestamp, compressed_memories,
                   pre, evicted, issued, epoch, clears>>

AttNext ==
    \/ \E query \in AttQueries,
          keys \in SeqsUpTo(AttKeys, MaxTriples),
          values \in SeqsUpTo(AttValues, MaxTriples),
          distances \in SeqsUpTo(0..(MaxTemporalDistance + 1), MaxTriples) :
          AttentionForward(query, keys, values, distances)
    \/ \E query \in AttQueries, key \in CrossKeys, value \in CrossValues,
          positions \in PositionLists :
          CrossTemporalAttention(query, key, value, positions)

SpecAttention == AttInit /\ [][AttNext]_vars

----------------------------------------------------------------------------
(* Properties of TemporalAttention, C13, C14, C19 *)

\* the triples of the last forward call that are within max_temporal_distance
Kept ==
    {i \in 1..Len(arg.distances) : arg.distances[i] <= config.max_temporal_distance}

\* the attention primitive's output for triple i of the last call
TripleOutput(i) == scaled_dot_product_attention(arg.query, arg.keys[i], arg.values[i])

\* decay_factor ^ distance times entry (r, c) of triple i's output
WeightedEntry(i, r, c) ==
    (TripleOutput(i).output[r][c] * Pow(config.decay_factor[1], arg.distances[i]))
        \div Pow(config.decay_factor[2], arg.distances[i])

RECURSIVE SumOver(_, _, _)
SumOver(S, r, c) ==
    IF S = {} THEN 0
    ELSE LET i == CHOOSE x \in S : TRUE
         IN WeightedEntry(i, r, c) + SumOver(S \ {i}, r, c)

EqualLengths ==
    Len(arg.keys) = Len(arg.values) /\ Len(arg.keys) = Len(arg.distances)

\* C13: forward skips every triple with distance > max_temporal_distance and
\* keeps every other one; its result is the sum of the kept weighted outputs
\* divided by the number kept; when none is kept the result is a zero matrix
\* shaped like the query and the attention primitive is not called.
C13_ForwardMeanOfKept ==
    (op = "forward" /\ EqualLengths) =>
        /\ Kept = {} =>
              /\ ret.status = "ok"
              /\ ret.output = Zeros(NRows(arg.query), NCols(arg.query))
              /\ ret.calls = 0
        /\ (Kept # {} /\ \A i \in Kept : TripleOutput(i).status = "ok") =>
              /\ ret.status = "ok"
              /\ ret.calls = Cardinality(Kept)
              /\ MShape(ret.output) = <<NRows(arg.query), NCols(arg.values[1])>>
              /\ \A r \in 1..NRows(ret.output), c \in 1..NCols(ret.output) :
                    ret.output[r][c] = SumOver(Kept, r, c) \div Cardinality(Kept)

\* a call with one triple at exactly max_temporal_distance, kept, and one
\* beyond it, skipped: the result is the kept output, not half of it
C13_Witness ==
    /\ op = "forward"
    /\ EqualLengths
    /\ Len(arg.distances) = 2
    /\ config.max_temporal_distance >= 1
    /\ arg.distances[1] > config.max_temporal_distance
    /\ arg.distances[2] = config.max_temporal_distance
    /\ ret.status = "ok"
    /\ ret.calls = 1
    /\ ret.output # Zeros(NRows(arg.query), NCols(arg.query))

\* a call whose two triples are both kept, at different distances
C13_WitnessTwoKept ==
    /\ op = "forward"
    /\ ret.status = "ok"
    /\ ret.calls = 2
    /\ arg.distances[1] # arg.distances[2]
    /\ arg.values[1] # arg.values[2]

\* a call whose triples are all beyond the cutoff
C13_WitnessNoneKept ==
    /\ op = "forward"
    /\ EqualLengths
    /\ Len(arg.distances) = 2
    /\ Kept = {}
    /\ ret.calls = 0

\* C14: forward returns an error, without calling the attention primitive,
\* whenever the three lists are not of equal length.
C14_LengthMismatchIsError ==
    (op = "forward" /\ ~EqualLengths) => (ret.status = "err" /\ ret.calls = 0)

\* keys and values of equal length, one distance fewer, every distance beyond the cutoff
C14_Witness ==
    /\ op = "forward"
    /\ Len(arg.keys) = 2
    /\ Len(arg.values) = 2
    /\ Len(arg.distances) = 1
    /\ Kept = {}
    /\ ret.status = "err"

\* C19: cross_temporal_attention returns what the unmasked attention primitive
\* returns for (query, key, value), whatever the positions are.
C19_CrossIsPlainAttention ==
    op = "cross_temporal_attention" =>
        LET a == scaled_dot_product_attention(arg.query, arg.keys[1], arg.values[1])
        IN /\ ret.status = a.status
           /\ ret.output = a.output
           /\ ret.calls = 1
           /\ \A positions \in PositionLists :
                 cross_temporal_attention(config, arg.query, arg.keys[1],
                                          arg.values[1], positions) = ret

\* a successful call with a decay below 1 and a first position of 2
C19_Witness ==
    /\ op = "cross_temporal_attention"
    /\ ret.status = "ok"
    /\ config.decay_factor = <<1, 2>>
    /\ arg.distances = <<2>>
    /\ NRows(arg.keys[1]) = 2
    /\ ret.output # Zeros(NRows(arg.query), NCols(arg.values[1]))

----------------------------------------------------------------------------
(* LayerNorm and ResidualConnection, src/layers/layer_norm.rs.  Matrices    *)
(* produced by the attention are in units of 1 / AttScale.                  *)

\* LayerNorm::forward, lines 22-43, with gamma 1 and beta 0 (lines 12-13): a
\* row whose entries are all equal has x - mean = 0 in every column.  The
\* encoder model's matrices have one column, so every row is of that kind.
layer_norm_forward(input) ==
    [i \in 1..NRows(input) |->
        CASE UniformRow(input[i]) -> [j \in 1..NCols(input) |-> 0]]

\* ResidualConnection::forward, lines 49-60
ResidualConnection_forward(input, sublayer_output) ==
    IF MShape(input) # MShape(sublayer_output)
    THEN [status |-> "err", output |-> <<>>]
    ELSE [status |-> "ok",
          output |-> layer_norm_forward(MAdd(MScale(input, AttScale, 1),
                                             sublayer_output))]

----------------------------------------------------------------------------
(* TemporalEncoder, src/temporal/temporal_encoder.rs.  cfg has the fields   *)
(* of MemoryConfig and max_temporal_distance, temporal_decay_factor and     *)
(* memory_integration_weights; mem and now are the queue and the timestamp  *)
(* of its memory bank.  The bank keeps a 1 x n matrix as its row.           *)

ContextDistance == 10   \* apply_temporal_attention, line 87
ContextK == 5           \* retrieve_memory_context, line 136

\* the entries of a matrix, row after row
RECURSIVE Flatten(_)
Flatten(m) == IF m = <<>> THEN <<>> ELSE m[1] \o Flatten(Tail(m))

\* a stored representation as the DMatrix it is
AsMatrix(representation) == <<representation>>

TemporalAttentionOf(cfg) ==
    [max_temporal_distance |-> cfg.max_temporal_distance,
     decay_factor |-> cfg.temporal_decay_factor]

\* what a call that has not reached a step reports of it
NoCall ==
    [status |-> "ok", output |-> <<>>, stored |-> <<>>, retrieves |-> 0,
     attention |-> "none", calls |-> 0, context |-> <<>>, projected |-> FALSE,
     reads |-> 0]

\* Fault: the representation is stored as it is, unpooled (sensitivity of C20)
global_average_pool_unpooled(input) == input

\* global_average_pool, lines 193-204
global_average_pool(input) ==
    << [j \in 1..NCols(input) |->
          SumTo([i \in 1..NRows(input) |-> input[i][j]], NRows(input))
              \div NRows(input)] >>

\* store_in_memory, lines 187-191
store_in_memory(mem, cfg, now, representation) ==
    LET pooled == global_average_pool(representation)
    IN [bank |-> store(mem, cfg, now, Flatten(pooled)), pooled |-> pooled]

\* MemoryBank::retrieve with a matrix query: cosine_similarity, memory_bank.rs
\* lines 177-179, fails when the query's shape differs from a live entry's
memory_bank_retrieve(mem, cfg, now, query, k) ==
    IF \E i \in 1..Len(mem) : Shape(mem[i].representation) # MShape(query)
    THEN [memories |-> mem,
          ret |-> [status |-> "err", values |-> <<>>, indices |-> <<>>]]
    ELSE retrieve(mem, cfg, now, Flatten(query), k)

\* Fault: the distances start at 0, as the ages of entries stored one call
\* after the other do (sensitivity of C21)
SyntheticDistances_from_zero(n) == [i \in 1..n |-> i - 1]

\* lines 93 and 142: (1..=len).collect()
SyntheticDistances(n) == [i \in 1..n |-> i]

\* Fault: an empty context is not short-circuited (sensitivity of C15)
EmptyContext_never(memory_context) == FALSE

\* apply_temporal_attention, line 89
EmptyContext(memory_context) == memory_context = <<>>

\* apply_temporal_attention, lines 86-109
apply_temporal_attention(mem, cfg, now, current_output) ==
    LET memory_context ==
            get_temporal_context(mem, now, cfg.retention_threshold,
                                 Flatten(current_output), ContextDistance)
        keys == [i \in 1..Len(memory_context) |-> AsMatrix(memory_context[i])]
        a == temporal_attention_forward(TemporalAttentionOf(cfg), current_output,
                                        keys, keys,
                                        SyntheticDistances(Len(memory_context)))
    IN IF EmptyContext(memory_context)
       THEN [NoCall EXCEPT !.output = current_output, !.reads = 1]
       ELSE IF a.status # "ok"
       THEN [NoCall EXCEPT !.status = a.status, !.attention = a.status,
                           !.calls = a.calls, !.reads = 1]
       ELSE LET c == ResidualConnection_forward(current_output, a.output)
            IN [NoCall EXCEPT !.status = c.status, !.output = c.output,
                              !.attention = "ok", !.calls = a.calls,
                              !.context = a.output, !.reads = 1]

\* combine_previous_states, lines 167-185: the states' rows, one state after
\* the other; copy_from panics on a state whose width is not the first's (a
\* state of no rows is taken to have the width of the others)
combine_previous_states(states) ==
    IF states = <<>>
    THEN [status |-> "err", output |-> <<>>]
    ELSE IF \E i, j \in 1..Len(states) :
               states[i] # <<>> /\ states[j] # <<>> /\ NCols(states[i]) # NCols(states[j])
    THEN [status |-> "panic", output |-> <<>>]
    ELSE [status |-> "ok", output |-> Flatten(states)]

\* compute_temporal_context, lines 111-133, for previous_states not empty
compute_temporal_context(cfg, current_output, previous_states) ==
    LET combined == combine_previous_states(previous_states)
        a == cross_temporal_attention(TemporalAttentionOf(cfg), current_output,
                                      combined.output, combined.output,
                                      [i \in 1..NRows(current_output) |-> i - 1])
    IN IF combined.status # "ok"
       THEN [status |-> combined.status, context |-> <<>>, memories |-> <<>>,
             retrieves |-> 0, attention |-> "none", calls |-> 0]
       ELSE [status |-> a.status, context |-> a.output, memories |-> <<>>,
             retrieves |-> 0, attention |-> a.status, calls |-> a.calls]

\* retrieve_memory_context, lines 135-150
retrieve_memory_context(mem, cfg, now, query) ==
    LET r == memory_bank_retrieve(mem, cfg, now, query, ContextK)
        keys == [i \in 1..Len(r.ret.values) |-> AsMatrix(r.ret.values[i])]
        a == temporal_attention_forward(TemporalAttentionOf(cfg), query, keys, keys,
                                        SyntheticDistances(Len(keys)))
    IN IF r.ret.status # "ok"
       THEN [status |-> r.ret.status, context |-> <<>>, memories |-> r.memories,
             retrieves |-> 1, attention |-> "none", calls |-> 0]
       ELSE IF r.ret.values = <<>>
       THEN [status |-> "ok", context |-> Zeros(NRows(query), NCols(query)),
             memories |-> r.memories, retrieves |-> 1, attention |-> "none",
             calls |-> 0]
       ELSE [status |-> a.status, context |-> a.output, memories |-> r.memories,
             retrieves |-> 1, attention |-> a.status, calls |-> a.calls]

\* Fault: no context is treated as negligible (sensitivity of C17)
Negligible_never(temporal_context) == FALSE

\* integrate_temporal_context, line 157: the norm is below 1e-8.  The least
\* non-zero entry of a model matrix is 1 / AttScale, so the norm is below
\* 1e-8 exactly when every entry is 0.
Negligible(temporal_context) ==
    \A i \in 1..NRows(temporal_context), j \in 1..NCols(temporal_context) :
        temporal_context[i][j] = 0

\* integrate_temporal_context, lines 152-165.  memory_integration_weights is
\* d_model x d_model: the product panics unless the context has d_model
\* columns, and the sum unless it has the base's rows.  With d_model = 1 the
\* weights are one number, cfg.memory_integration_weights.
integrate_temporal_context(cfg, base_output, temporal_context) ==
    IF Negligible(temporal_context)
    THEN [status |-> "ok", output |-> base_output, projected |-> FALSE]
    ELSE IF MShape(temporal_context) # MShape(base_output)
    THEN [status |-> "panic", output |-> <<>>, projected |-> TRUE]
    ELSE [status |-> "ok",
          output |-> layer_norm_forward(
                        MAdd(MScale(base_output, AttScale, 1),
                             MScale(temporal_context,
                                    cfg.memory_integration_weights[1],
                                    cfg.memory_integration_weights[2]))),
          projected |-> TRUE]

\* the state a call leaves and what it returns
Outcome(mem, now, ev, r) ==
    [memories |-> mem, current_timestamp |-> now, evicted |-> ev, ret |-> r]

\* lines 55-56, 60-62 and 81-83: pool and store the output, return it
StoreAndReturn(mem, cfg, now, output, r) ==
    LET s == store_in_memory(mem, cfg, now, output)
    IN Outcome(s.bank.memories, s.bank.current_timestamp, s.bank.evicted,
               [r EXCEPT !.status = "ok", !.output = output, !.stored = <<s.pooled>>])

\* Fault: a call whose context fails stores the pooled base before it returns
\* (sensitivity of C18)
ContextFailed_after_store(mem, cfg, now, base_output, r) ==
    LET s == store_in_memory(mem, cfg, now, base_output)
    IN Outcome(s.bank.memories, s.bank.current_timestamp, s.bank.evicted,
               [r EXCEPT !.stored = <<s.pooled>>])

\* the `?` of lines 59 and 75-77: the failure is returned, nothing is stored
ContextFailed(mem, cfg, now, base_output, r) == Outcome(mem, now, NoEviction, r)

\* TemporalEncoder::forward, lines 46-63; base is what base_encoder.forward returned
encoder_forward(mem, cfg, now, base, use_temporal_context) ==
    IF base.status # "ok"
    THEN Outcome(mem, now, NoEviction, [NoCall EXCEPT !.status = base.status])
    ELSE IF ~use_temporal_context
    THEN StoreAndReturn(mem, cfg, now, base.output, NoCall)
    ELSE LET t == apply_temporal_attention(mem, cfg, now, base.output)
         IN IF t.status # "ok"
            THEN ContextFailed(mem, cfg, now, base.output, t)
            ELSE StoreAndReturn(mem, cfg, now, t.output, t)

\* Fault: the previous states are ignored and the bank is always asked
\* (sensitivity of C22)
UsesPreviousStates_never(previous_states) == FALSE

\* forward_with_continuity, line 74
UsesPreviousStates(previous_states) == previous_states # <<>>

\* TemporalEncoder::forward_with_continuity, lines 65-84
forward_with_continuity(mem, cfg, now, base, previous_states) ==
    IF base.status # "ok"
    THEN Outcome(mem, now, NoEviction, [NoCall EXCEPT !.status = base.status])
    ELSE LET c == IF UsesPreviousStates(previous_states)
                  THEN [compute_temporal_context(cfg, base.output, previous_states)
                           EXCEPT !.memories = mem]
                  ELSE retrieve_memory_context(mem, cfg, now, base.output)
             r == [NoCall EXCEPT !.status = c.status, !.retrieves = c.retrieves,
                                 !.attention = c.attention, !.calls = c.calls,
                                 !.context = c.context]
         IN IF c.status # "ok"
            THEN ContextFailed(c.memories, cfg, now, base.output, r)
            ELSE LET e == integrate_temporal_context(cfg, base.output, c.context)
                 IN IF e.status # "ok"
                    THEN Outcome(c.memories, now, NoEviction,
                                 [r EXCEPT !.status = e.status,
                                           !.projected = e.projected])
                    ELSE StoreAndReturn(c.memories, cfg, now, e.output,
                                        [r EXCEPT !.projected = e.projected])

----------------------------------------------------------------------------
(* The state machine of one TemporalEncoder with d_model = 1 and the calls  *)
(* made on it.  The base encoder's weights are random (models/encoder.rs    *)
(* lines 64-72): what it returns for a call is any matrix of d_model        *)
(* columns, or the error of line 49.                                        *)

Bases == {<< <<3>> >>, << <<0>> >>, << <<2>>, <<4>> >>}

BaseResults ==
    {[status |-> "ok", output |-> b] : b \in Bases}
        \cup {[status |-> "err", output |-> <<>>]}

PreviousStates ==
    {<<>>, << << <<2>> >> >>, << <<>> >>, << << <<2>> >>, << <<2>> >> >>,
     << << <<2, 0>> >> >>}

IntegrationWeights == {<<1, 1>>}

EncoderConfigs ==
    [max_memory_size : 0..MaxMemorySize,
     memory_decay_factor : DecayFactors,
     retention_threshold : RetentionThresholds,
     compression_ratio : {<<1, 2>>},
     max_temporal_distance : 0..MaxTemporalDistance,
     temporal_decay_factor : {<<1, 2>>},
     memory_integration_weights : IntegrationWeights]

EncoderArg(base, use_temporal_context, previous_states) ==
    [base |-> base, use_temporal_context |-> use_temporal_context,
     previous_states |-> previous_states]

EncoderInit ==
    /\ config \in EncoderConfigs
    /\ memories = <<>>
    /\ current_timestamp = 0
    /\ compressed_memories = <<>>
    /\ op = "new"
    /\ arg = EncoderArg([status |-> "ok", output |-> <<>>], FALSE, <<>>)
    /\ ret = NoCall
    /\ pre = [memories |-> <<>>, current_timestamp |-> 0, compressed_memories |-> <<>>]
    /\ evicted = NoEviction
    /\ issued = <<>>
    /\ epoch = 0
    /\ clears = 0

\* a call of the encoder that leaves the outcome r
EncoderCall(name, a, r) ==
    /\ memories' = r.memories
    /\ current_timestamp' = r.current_timestamp
    /\ evicted' = r.evicted
    /\ issued' = IF r.ret.stored # <<>> THEN Append(issued, r.current_timestamp)
                 ELSE issued
    /\ op' = name
    /\ arg' = a
    /\ ret' = r.ret
    /\ pre' = Snapshot
    /\ UNCHANGED <<config, compressed_memories, epoch, clears>>

EncoderForward(base, use_temporal_context) ==
    /\ Running
    /\ Len(issued) < MaxStores
    /\ EncoderCall("forward", EncoderArg(base, use_temporal_context, <<>>),
                   encoder_forward(memories, config, current_timestamp, base,
                                   use_temporal_context))

ForwardWithContinuity(base, previous_states) ==
    /\ Running
    /\ Len(issued) < MaxStores
    /\ EncoderCall("forward_with_continuity",
                   EncoderArg(base, FALSE, previous_states),
                   forward_with_continuity(memories, config, current_timestamp,
                                           base, previous_states))

\* clear_memory, lines 216-218
ClearMemory == Clear

EncoderNext ==
    \/ \E base \in BaseResults, use_temporal_context \in BOOLEAN :
          EncoderForward(base, use_temporal_context)
    \/ \E base \in BaseResults, previous_states \in PreviousStates :
          ForwardWithContinuity(base, previous_states)
    \/ ClearMemory

SpecEncoder == EncoderInit /\ [][EncoderNext]_vars

----------------------------------------------------------------------------
(* Properties of TemporalEncoder, C15 - C18 and C20 *)

EncoderCalled == op \in {"forward", "forward_with_continuity"}

\* the column means of the base encoding of the last call, as a 1 x d_model matrix
PooledBase ==
    LET b == arg.base.output
    IN << [j \in 1..NCols(b) |->
             SumTo([i \in 1..NRows(b) |-> b[i][j]], NRows(b)) \div NRows(b)] >>

\* what get_temporal_context(base, 10) returned to the last call
ContextBefore ==
    get_temporal_context(pre.memories, pre.current_timestamp,
                         config.retention_threshold, Flatten(arg.base.output),
                         ContextDistance)

\* the last call stored the pooled base, once, and nothing else was written:
\* the counter advanced by one and the entry was pushed with the new timestamp
StoredPooledBaseOnce ==
    /\ ret.stored = <<PooledBase>>
    /\ current_timestamp = pre.current_timestamp + 1
    /\ issued # <<>>
    /\ issued[Len(issued)] = current_timestamp
    /\ evicted = NoEviction =>
          /\ Len(memories) = Len(pre.memories) + 1
          /\ memories[Len(memories)] =
                 MemoryEntry_new(PooledBase[1], current_timestamp)
    /\ evicted # NoEviction =>
          Len(evicted.queue) = Len(pre.memories) + 1

\* C15: forward returns the base encoding unmodified and stores the pooled
\* base exactly once, without a retrieve, both when use_temporal_context is
\* false and when it is true but get_temporal_context(base, 10) is empty.
C15_ForwardWithoutContext ==
    (/\ op = "forward"
     /\ arg.base.status = "ok"
     /\ (~arg.use_temporal_context \/ ContextBefore = <<>>)) =>
        /\ ret.status = "ok"
        /\ ret.output = arg.base.output
        /\ ret.retrieves = 0
        /\ ret.calls = 0
        /\ StoredPooledBaseOnce
        /\ evicted = NoEviction =>
              SubSeq(memories, 1, Len(pre.memories)) = pre.memories

\* use_temporal_context is true, the bank is empty, the base has two rows
C15_Witness ==
    /\ op = "forward"
    /\ arg.use_temporal_context
    /\ arg.base.status = "ok"
    /\ NRows(arg.base.output) = 2
    /\ ContextBefore = <<>>
    /\ ret.output = << <<2>>, <<4>> >>
    /\ ret.stored = << << <<3>> >> >>

\* use_temporal_context is false and the bank has a context to offer
C15_WitnessNoContextAsked ==
    /\ op = "forward"
    /\ ~arg.use_temporal_context
    /\ arg.base.status = "ok"
    /\ ContextBefore # <<>>
    /\ ret.output = << <<3>> >>

\* C16: with previous_states empty, forward_with_continuity, whatever the
\* sequence length and the bank, calls retrieve(base, 5), succeeds, and
\* stores exactly one new pooled entry.
C16_ContinuityAlwaysSucceeds ==
    (/\ op = "forward_with_continuity"
     /\ arg.previous_states = <<>>
     /\ arg.base.status = "ok") =>
        /\ ret.retrieves = 1
        /\ ret.status = "ok"
        /\ Len(ret.stored) = 1
        /\ current_timestamp = pre.current_timestamp + 1

\* C17: in forward_with_continuity, a temporal context of norm below 1e-8
\* (the zero context of an empty bank included) makes the call return exactly
\* the base encoding, without the integration projection and normalization,
\* and store the pooled base exactly once.
C17_NegligibleContextIsIdentity ==
    (/\ op = "forward_with_continuity"
     /\ arg.base.status = "ok"
     /\ \/ ret.context # <<>>
              /\ ret.context = Zeros(NRows(ret.context), NCols(ret.context))
        \/ arg.previous_states = <<>> /\ pre.memories = <<>>) =>
        /\ ret.status = "ok"
        /\ ret.output = arg.base.output
        /\ ~ret.projected
        /\ StoredPooledBaseOnce

\* a zero context out of a bank that is not empty: every retrieved memory is
\* beyond max_temporal_distance or is itself zero
C17_Witness ==
    /\ op = "forward_with_continuity"
    /\ arg.previous_states = <<>>
    /\ pre.memories # <<>>
    /\ ret.retrieves = 1
    /\ ret.context = << <<0>> >>
    /\ ret.output = << <<3>> >>
    /\ ret.stored = << << <<3>> >> >>

\* the zero context of an empty bank, for a base of two rows
C17_WitnessEmptyBank ==
    /\ op = "forward_with_continuity"
    /\ arg.previous_states = <<>>
    /\ pre.memories = <<>>
    /\ ret.context = << <<0>>, <<0>> >>
    /\ ret.output = << <<2>>, <<4>> >>

\* a context that is not negligible is projected and normalized
C17_WitnessProjected ==
    /\ op = "forward_with_continuity"
    /\ ret.status = "ok"
    /\ ret.projected
    /\ ret.output # arg.base.output

\* the attention collaborator failed in the last call
AttentionFailed ==
    \/ ret.attention \in {"err", "panic"}
    \/ /\ op = "forward_with_continuity"
       /\ arg.base.status = "ok"
       /\ arg.previous_states # <<>>
       /\ combine_previous_states(arg.previous_states).status = "ok"
       /\ scaled_dot_product_attention(arg.base.output,
                                       Flatten(arg.previous_states),
                                       Flatten(arg.previous_states)).status # "ok"

\* C18: when the base encoder or the attention fails in forward or
\* forward_with_continuity, the call fails with that failure and stores
\* nothing: size() and current_timestamp are what they were before the call.
C18_FailureStoresNothing ==
    (EncoderCalled /\ (arg.base.status = "err" \/ AttentionFailed)) =>
        /\ ret.status = IF arg.base.status = "err" THEN "err" ELSE ret.attention
        /\ ret.status # "ok"
        /\ ret.stored = <<>>
        /\ Len(memories) = Len(pre.memories)
        /\ current_timestamp = pre.current_timestamp

\* the attention returns an error on a bank that holds an entry
C18_Witness ==
    /\ op = "forward_with_continuity"
    /\ arg.base.status = "ok"
    /\ ret.attention = "err"
    /\ ret.status = "err"
    /\ Len(memories) >= 1
    /\ current_timestamp >= 1

\* the base encoder returns an error on a bank that holds an entry
C18_WitnessBaseEncoder ==
    /\ EncoderCalled
    /\ arg.base.status = "err"
    /\ ret.status = "err"
    /\ Len(memories) >= 1

\* C20: every entry the encoder writes to its bank is a pooled 1 x d_model
\* row, on every path of forward and forward_with_continuity.
C20_OnlyPooledRowsStored ==
    /\ \A i \in 1..Len(memories) : Shape(memories[i].representation) = <<1, 1>>
    /\ EncoderCalled =>
          \A i \in 1..Len(ret.stored) :
              MShape(ret.stored[i]) = <<1, NCols(arg.base.output)>>

\* a base of two rows fused with the attention over the bank's context, stored as one row
C20_Witness ==
    /\ op = "forward"
    /\ arg.use_temporal_context
    /\ ret.attention = "ok"
    /\ NRows(ret.output) = 2
    /\ Len(ret.stored) = 1
    /\ Len(memories) >= 2

\* a base of two rows integrated with the context of previous states
C20_WitnessContinuity ==
    /\ op = "forward_with_continuity"
    /\ ret.projected
    /\ ret.status = "ok"
    /\ NRows(ret.output) = 2
    /\ Len(ret.stored) = 1

----------------------------------------------------------------------------
(* Properties of TemporalEncoder, C21 and C22 *)

\* the number of context entries that contribute in the last forward call
Contributing == Min(Len(ContextBefore), config.max_temporal_distance)

\* entry (r, c) of the attention over context entry i, decayed by its position i
PositionWeighted(i, c) ==
    (ContextBefore[i][c] * AttScale * Pow(config.temporal_decay_factor[1], i))
        \div Pow(config.temporal_decay_factor[2], i)

\* C21: in forward with a context of N entries, most recent first, entry i is
\* given distance i whatever its age, so exactly the first
\* min(N, max_temporal_distance) entries contribute to the temporal output.
C21_DistanceIsListPosition ==
    (/\ op = "forward"
     /\ arg.base.status = "ok"
     /\ arg.use_temporal_context
     /\ ContextBefore # <<>>) =>
        /\ ret.status = "ok"
        /\ ret.calls = Contributing
        /\ MShape(ret.context) = MShape(arg.base.output)
        /\ \A r \in 1..NRows(ret.context), c \in 1..NCols(ret.context) :
              ret.context[r][c] =
                 IF Contributing = 0 THEN 0
                 ELSE SumTo([i \in 1..Contributing |-> PositionWeighted(i, c)],
                            Contributing) \div Contributing

\* two context entries of age 0 and 1 with max_temporal_distance = 1: only the
\* first, at distance 1, contributes, and the second is skipped
C21_Witness ==
    /\ op = "forward"
    /\ arg.use_temporal_context
    /\ Len(ContextBefore) = 2
    /\ config.max_temporal_distance = 1
    /\ pre.memories[Len(pre.memories)].timestamp = pre.current_timestamp
    /\ ContextBefore[1] = <<3>>
    /\ ContextBefore[2] = <<0>>
    /\ ret.calls = 1
    /\ ret.context # Zeros(NRows(ret.context), NCols(ret.context))

\* C22: with previous_states not empty, forward_with_continuity calls neither
\* retrieve nor get_temporal_context; its only operation on the bank is the
\* final store, so the bank is what that one store makes of the bank before
\* the call, and is untouched when the call fails.
C22_PreviousStatesBypassBank ==
    (/\ op = "forward_with_continuity"
     /\ arg.base.status = "ok"
     /\ arg.previous_states # <<>>) =>
        /\ ret.retrieves = 0
        /\ ret.reads = 0
        /\ Len(ret.stored) <= 1
        /\ ret.stored = <<>> =>
              /\ memories = pre.memories
              /\ current_timestamp = pre.current_timestamp
        /\ ret.stored # <<>> =>
              LET pushed == Append(pre.memories,
                                   MemoryEntry_new(Flatten(ret.stored[1]),
                                                   pre.current_timestamp + 1))
              IN /\ current_timestamp = pre.current_timestamp + 1
                 /\ evicted = NoEviction => memories = pushed
                 /\ evicted # NoEviction =>
                       evicted.queue =
                          update_all_importance_scores(pushed,
                                                       config.memory_decay_factor,
                                                       current_timestamp)

\* a successful call with one previous state on a bank whose entry a
\* retrieve(base, 5) would have returned and touched
C22_Witness ==
    /\ op = "forward_with_continuity"
    /\ arg.previous_states = << << <<2>> >> >>
    /\ arg.base.output = << <<3>> >>
    /\ ret.status = "ok"
    /\ Len(pre.memories) = 1
    /\ Len(memories) = 2
    /\ memories[1] = pre.memories[1]

----------------------------------------------------------------------------
(* Properties of MemoryBank, C23 - C26 *)

\* C23: for max_memory_size >= 1, when a store call returns, the entry it
\* created (timestamp = current_timestamp) is in the live queue.
C23_StoreKeepsNewEntry ==
    (op = "store" /\ config.max_memory_size >= 1) =>
        current_timestamp \in LiveTimestamps(memories)

\* a store into a bank of capacity 2 that evicted the entry it stored and
\* kept an older one, which retrieves had boosted
C23_OlderEntryOutranksNew ==
    /\ op = "store"
    /\ config.max_memory_size = 2
    /\ memories # <<>>
    /\ current_timestamp \notin LiveTimestamps(memories)

\* C24: the live queue's timestamps are strictly increasing from front to
\* back, each at least 1 and at most current_timestamp, so
\* current_timestamp - entry.timestamp never underflows.
C24_TimestampsOrderedAndBounded ==
    /\ \A i \in 1..Len(memories) :
          /\ memories[i].timestamp >= 1
          /\ memories[i].timestamp <= current_timestamp
    /\ \A i \in 1..(Len(memories) - 1) :
          memories[i].timestamp < memories[i + 1].timestamp
    /\ \A i \in 1..Len(evicted.queue) :
          /\ evicted.queue[i].timestamp >= 1
          /\ evicted.queue[i].timestamp <= current_timestamp

\* a retrieve that touched an entry of age 2 in a queue of three
C24_Witness ==
    /\ op = "retrieve"
    /\ Len(memories) = 3
    /\ Len(ret.indices) >= 1
    /\ current_timestamp - memories[ret.indices[1]].timestamp = 2

\* two entries stored after a clear that followed an earlier store
C24_WitnessAfterClear ==
    /\ clears = 1
    /\ epoch >= 1
    /\ Len(memories) = 2
    /\ memories[1].timestamp = 1

\* an eviction ran in the last call
EvictionRan == op = "store" /\ evicted # NoEviction

\* the last call was a retrieve that returned the entry at index j of the queue
ReturnedByRetrieve(j) ==
    op = "retrieve" /\ ret.status = "ok" /\ j \in SeqRange(ret.indices)

Count(b) == IF b THEN 1 ELSE 0

\* C25: each live entry's access_count is the number of retrieve calls that
\* returned it plus the number of evictions that ran while it was live.  Call
\* by call: an entry enters with 0, every call adds 1 if it is a retrieve that
\* returned the entry and 1 if it is a store whose eviction ran (the entry
\* just stored included), and nothing else changes it.
C25_AccessCountCountsTouches ==
    \A i \in 1..Len(memories) :
        IF memories[i].timestamp \in LiveTimestamps(pre.memories) /\ op # "clear"
        THEN \E j \in 1..Len(pre.memories) :
                /\ pre.memories[j].timestamp = memories[i].timestamp
                /\ memories[i].access_count =
                      pre.memories[j].access_count
                      + Count(ReturnedByRetrieve(j)) + Count(EvictionRan)
        ELSE memories[i].access_count = Count(EvictionRan)

\* an evicting store that left the entry it stored, never retrieved, with
\* access_count 1, after a retrieve had touched an entry
C25_Witness ==
    /\ EvictionRan
    /\ \E i \in 1..Len(memories) :
          /\ memories[i].timestamp = current_timestamp
          /\ memories[i].access_count = 1
    /\ \E j \in 1..Len(pre.memories) : pre.memories[j].access_count >= 1

\* an entry counted twice: returned by a retrieve and refreshed by an eviction
C25_WitnessBoth ==
    /\ EvictionRan
    /\ \E i \in 1..Len(memories) :
          /\ memories[i].timestamp < current_timestamp
          /\ memories[i].access_count >= 2

\* C26: if the query's shape differs from some live entry's, retrieve returns
\* the shape-mismatch error and the bank is as it was: no entry is touched,
\* not even those whose shape matches the query.
C26_MismatchLeavesBankUnchanged ==
    (/\ op = "retrieve"
     /\ \E i \in 1..Len(pre.memories) :
           Len(pre.memories[i].representation) # Len(arg.representation)) =>
        /\ ret.status = "err"
        /\ ret.values = <<>>
        /\ memories = pre.memories
        /\ current_timestamp = pre.current_timestamp
        /\ compressed_memories = pre.compressed_memories

\* a bank whose first entry matches the query and whose second does not
C26_Witness ==
    /\ op = "retrieve"
    /\ arg.k >= 1
    /\ Len(pre.memories) >= 2
    /\ Len(pre.memories[1].representation) = Len(arg.representation)
    /\ Len(pre.memories[2].representation) # Len(arg.representation)
    /\ ret.status = "err"

====
